---- MODULE Spec2Model ----
(***************************************************************************)
(* A model of translator_v5_cost.py: the batch translator that fans one    *)
(* job per (row, language) out over a thread pool, retries each API call   *)
(* up to three times, validates the script of the reply, collects results  *)
(* in completion order and writes the augmented table once.                *)
(*                                                                         *)
(* Texts are sequences of Unicode code points.  A cell value is a record   *)
(* [kind, s]: kind "nan" (a missing cell, pandas NaN), "int" (a numeric    *)
(* cell, s = <<n>>) or "str" (a text, s = its code points).                *)
(***************************************************************************)
EXTENDS Integers, Sequences, FiniteSets, TLC

\* ------------------------------------------------------------------ bounds
MaxRows == 2      \* rows of the input table
MaxLangs == 2     \* labels of the configured language list in one run
MaxJobs == 4      \* rows * languages of one run
MaxTok == 1       \* the largest completion-token count a reply reports
MaxLen == 2       \* characters of a candidate text handed to the validator
MaxRuns == 2      \* runs of the program, one after the other
MaxTicks == 6     \* moments the clock passes through
PoolRows == 4     \* rows of the table whose jobs outnumber the pool's threads

\* --------------------------------------------------------- configuration
MAX_WORKERS == 45
MAX_ATTEMPTS == 3
API_TIMEOUT == 30
WAIT_MULTIPLIER == 1
WAIT_MIN == 2
WAIT_MAX == 10
EXP_BASE == 2

\* The column labels are written in pinyin: Yingyu is the English column (the
\* pass-through language), Fayu French, Deyu German, Yidaliyu Italian, Xibanyayu
\* Spanish, Eyu Russian, Putaoyayu Portuguese, Jiekeyu Czech, Riyu Japanese,
\* Siluofakeyu Slovak, Bolanyu Polish, Xiongyaliyu Hungarian, Helanyu Dutch,
\* Wukelanyu Ukrainian, Alaboyu Arabic.
LANGS ==
  << "Yingyu", "Fayu", "Deyu", "Yidaliyu", "Xibanyayu", "Eyu", "Putaoyayu", "Jiekeyu",
     "Riyu", "Siluofakeyu", "Bolanyu", "Xiongyaliyu", "Helanyu", "Wukelanyu", "Alaboyu" >>

LangLabels == {LANGS[i] : i \in 1..Len(LANGS)}

\* ------------------------------------------------------------ characters
\* One representative code point of each class the program tells apart.
SPACE == 32
LATIN == 97
HAN == 20013
CYR == 1076
ARABIC == 1593

IsSpace(c) ==
  c \in {9, 10, 11, 12, 13, 28, 29, 30, 31, 32, 133, 160, 5760, 8232, 8233, 8239, 8287, 12288}
         \cup (8192..8202)
IsHan(c) == c >= 19968 /\ c <= 40959
IsArabic(c) == c >= 1536 /\ c <= 1791
IsCyr(c) == c >= 1024 /\ c <= 1279

\* ---------------------------------------------------------------- values
NaN == [kind |-> "nan", s |-> <<>>]
Str(t) == [kind |-> "str", s |-> t]
Num(n) == [kind |-> "int", s |-> <<n>>]

EMPTY == <<>>
ERROR == <<69, 82, 82, 79, 82>>
ORIGINAL == "Original"

\* pd.isna(text)
IsNa(v) == v.kind = "nan"

\* The decimal digits of a natural number, as code points.
RECURSIVE Digits(_)
Digits(n) == IF n < 10 THEN <<48 + n>> ELSE Digits(n \div 10) \o <<48 + (n % 10)>>

\* str(text): a text is itself, a number is its decimal form.
PyStr(v) ==
  IF v.kind = "str" THEN v.s
  ELSE IF v.kind = "int" THEN Digits(v.s[1])
  ELSE <<110, 97, 110>>

\* s.lstrip(), s.rstrip(), s.strip()
RECURSIVE LStrip(_)
LStrip(t) == IF t # <<>> /\ IsSpace(Head(t)) THEN LStrip(Tail(t)) ELSE t

RECURSIVE RStrip(_)
RStrip(t) ==
  IF t # <<>> /\ IsSpace(t[Len(t)]) THEN RStrip(SubSeq(t, 1, Len(t) - 1)) ELSE t

Strip(t) == RStrip(LStrip(t))

\* _RE_HAN.search(s), _RE_ARABIC.search(s), _RE_CYR.search(s)
HasHan(t) == \E i \in 1..Len(t) : IsHan(t[i])
HasArabic(t) == \E i \in 1..Len(t) : IsArabic(t[i])
HasCyr(t) == \E i \in 1..Len(t) : IsCyr(t[i])

\* ------------------------------------------------------------- validator
\* Faulty variant: a Han character is tolerated next to Cyrillic or Arabic
\* script.
NoHanRuleUnlessScript(lang_cn, t) ==
  lang_cn # "Riyu" /\ HasHan(t) /\ ~HasCyr(t) /\ ~HasArabic(t)

\* lang_cn != the Japanese label and _RE_HAN.search(s)
NoHanRule(lang_cn, t) == lang_cn # "Riyu" /\ HasHan(t)

\* Faulty variant: no Cyrillic character is asked of Russian and Ukrainian.
_lang_ok_without_cyrillic_rule(lang_cn, out) ==
  LET t == Strip(out) IN
  IF t = <<>> THEN TRUE
  ELSE IF NoHanRule(lang_cn, t) THEN FALSE
  ELSE IF lang_cn = "Alaboyu" /\ ~HasArabic(t) THEN FALSE
  ELSE TRUE

\* Faulty variant: a candidate for a language without a script rule must
\* hold a character below U+0250.
_lang_ok_latin_required(lang_cn, out) ==
  LET t == Strip(out) IN
  IF t = <<>> THEN TRUE
  ELSE IF NoHanRule(lang_cn, t) THEN FALSE
  ELSE IF lang_cn = "Alaboyu" THEN HasArabic(t)
  ELSE IF lang_cn \in {"Eyu", "Wukelanyu"} THEN HasCyr(t)
  ELSE IF lang_cn = "Riyu" THEN TRUE
  ELSE \E i \in 1..Len(t) : t[i] < 592

_lang_ok(lang_cn, out) ==
  LET t == Strip(out) IN
  IF t = <<>> THEN TRUE
  ELSE IF NoHanRule(lang_cn, t) THEN FALSE
  ELSE IF lang_cn = "Alaboyu" /\ ~HasArabic(t) THEN FALSE
  ELSE IF lang_cn \in {"Eyu", "Wukelanyu"} /\ ~HasCyr(t) THEN FALSE
  ELSE TRUE

\* ------------------------------------------------------ translation client
None == [kind |-> "none", s |-> <<>>]
NoCount == 0 - 1

\* getattr(response.usage, name, 0) or 0
OrZero(n) == IF n = NoCount THEN 0 ELSE n

LANG_EN ==
  ("Yingyu" :> "English") @@ ("Fayu" :> "French") @@ ("Deyu" :> "German")
    @@ ("Yidaliyu" :> "Italian") @@ ("Xibanyayu" :> "Spanish") @@ ("Eyu" :> "Russian")
    @@ ("Putaoyayu" :> "Portuguese") @@ ("Jiekeyu" :> "Czech") @@ ("Riyu" :> "Japanese")
    @@ ("Siluofakeyu" :> "Slovak") @@ ("Bolanyu" :> "Polish")
    @@ ("Xiongyaliyu" :> "Hungarian") @@ ("Helanyu" :> "Dutch")
    @@ ("Wukelanyu" :> "Ukrainian") @@ ("Alaboyu" :> "Arabic")

\* Faulty variant: a label without an entry gets the first entry's name.
GetOrDefault(d, key, default) == IF key \in DOMAIN d THEN d[key] ELSE d["Yingyu"]

\* d.get(key, default)
Get(d, key, default) == IF key \in DOMAIN d THEN d[key] ELSE default

\* The request call_api builds: the language name of the system prompt is
\* LANG_EN.get(lang_cn, lang_cn), the user message is the text.
Request(text, lang_cn) ==
  [model |-> "deepseek-chat", lang_en |-> Get(LANG_EN, lang_cn, lang_cn),
   user |-> text, timeout |-> API_TIMEOUT]

\* What one call of client.chat.completions.create can come back with: an
\* exception (network error, timeout, rate limit), or a reply whose content is
\* None or a text and whose usage counters may be missing.
ExcResponse == [kind |-> "exc", content |-> None, pt |-> NoCount, ct |-> NoCount]
Reply(content, pt, ct) == [kind |-> "reply", content |-> content, pt |-> pt, ct |-> ct]

\* One attempt of call_api's body, given what the endpoint came back with:
\* [ok, why, text, tin, tout].
Failed(why) == [ok |-> FALSE, why |-> why, text |-> <<>>, tin |-> 0, tout |-> 0]

\* Faulty variant: the reply is returned without asking the validator.
call_api_once_unvalidated(text, lang_cn, resp) ==
  IF resp.kind = "exc" THEN Failed("client")
  ELSE IF resp.content.kind # "str" THEN Failed("client")
  ELSE [ok |-> TRUE, why |-> "", text |-> Strip(resp.content.s),
        tin |-> OrZero(resp.pt), tout |-> OrZero(resp.ct)]

call_api_once(text, lang_cn, resp) ==
  IF resp.kind = "exc" THEN Failed("client")
  ELSE IF resp.content.kind # "str" THEN Failed("client")
  ELSE LET out_text == Strip(resp.content.s) IN
       IF ~_lang_ok(lang_cn, out_text) THEN Failed("mismatch")
       ELSE [ok |-> TRUE, why |-> "", text |-> out_text,
             tin |-> OrZero(resp.pt), tout |-> OrZero(resp.ct)]

\* Faulty variants of the stop rule: one attempt short, one attempt long.
StopAfterTwo(attempt) == attempt >= MAX_ATTEMPTS - 1
StopAfterFour(attempt) == attempt > MAX_ATTEMPTS

\* stop_after_attempt(3): no further attempt once this many have failed.
StopAfter(attempt) == attempt >= MAX_ATTEMPTS

Max(a, b) == IF a >= b THEN a ELSE b
Min(a, b) == IF a <= b THEN a ELSE b

RECURSIVE Pow(_, _)
Pow(b, e) == IF e = 0 THEN 1 ELSE b * Pow(b, e - 1)

\* Faulty variant: the exponent is the attempt number itself.
WaitFromAttempt(attempt) ==
  Max(Max(0, WAIT_MIN), Min(WAIT_MULTIPLIER * Pow(EXP_BASE, attempt), WAIT_MAX))

\* wait_exponential(multiplier=1, min=2, max=10), called after the attempt
\* numbered attempt (from 1) has failed: multiplier * 2 ** (attempt - 1),
\* clamped to [min, max].
Wait(attempt) ==
  Max(Max(0, WAIT_MIN), Min(WAIT_MULTIPLIER * Pow(EXP_BASE, attempt - 1), WAIT_MAX))

\* ------------------------------------------------------------------ do_job
\* What do_job returns: (row_idx, lang_cn, text, in, out).
Result(row_idx, lang_cn, text, tin, tout) ==
  [row_idx |-> row_idx, lang |-> lang_cn, text |-> text, tin |-> tin, tout |-> tout]

\* Faulty variants: blankness tested without strip(); the pass-through
\* language compared with its prompt name.
IsBlankUnstripped(text) == IsNa(text) \/ PyStr(text) = <<>>
PassThroughByPromptName(lang_cn) == lang_cn = "English"

\* pd.isna(text) or str(text).strip() == ""
IsBlank(text) == IsNa(text) \/ Strip(PyStr(text)) = <<>>

\* lang_cn == the English column's label
PassThrough(lang_cn) == lang_cn = "Yingyu"

BlankResult(row_idx, lang_cn, text) == Result(row_idx, lang_cn, Str(EMPTY), 0, 0)
PassResult(row_idx, lang_cn, text) == Result(row_idx, lang_cn, Str(PyStr(text)), 0, 0)
\* Faulty variants: a failed job returns a missing value; an empty text.
ErrorResultDropsCell(row_idx, lang_cn, text) == Result(row_idx, lang_cn, NaN, 0, 0)
ErrorResultEmpty(row_idx, lang_cn, text) == Result(row_idx, lang_cn, Str(EMPTY), 0, 0)

ErrorResult(row_idx, lang_cn, text) ==
  IF PassThrough(lang_cn) THEN Result(row_idx, lang_cn, Str(PyStr(text)), 0, 0)
  ELSE Result(row_idx, lang_cn, Str(ERROR), 0, 0)
OkResult(row_idx, lang_cn, res) == Result(row_idx, lang_cn, Str(res.text), res.tin, res.tout)

\* ------------------------------------------------------------------- state
VARIABLES
  file,      \* the input artifact: [exists, cols, orig], orig the Original column
  langs,     \* the configured language list of this run, a sub-list of LANGS
  pc,        \* main: "start", "no_file", "no_column", "collect", "done"; "idle" when
             \* main is not run at all
  df,        \* the table in memory: [n, cols, cells], cells keyed by <<row, column>>
  stats,     \* the Usage Totals: [in, out]
  futures,   \* one per submitted job, keyed by <<row_idx, lang_cn>>: its state, its
             \* source text, the attempts and API calls made, whether the validator
             \* rejected every attempt so far, the waits slept between attempts, the
             \* error-log lines written, its result
  pbar,      \* the progress counter: results collected so far
  saved,     \* the output artifact: [writes, cols, cells]
  inorder,   \* history: every result so far was collected in submission order
  now,       \* the wall clock: [year, month, day, hour, minute, second]
  outdir,    \* the working directory: for each artifact name, the writes made to it
  call       \* a single call of one function, observed on its own: [fn, args, ret]

vars == <<file, langs, pc, df, stats, futures, pbar, saved, inorder, now, outdir, call>>

Range(q) == {q[i] : i \in 1..Len(q)}
NoCells == [k \in {} |-> NaN]
Rows(d) == 0..(d.n - 1)

\* ------------------------------------------------------------------ inputs
\* The configured list of a run: the first label of LANGS, the pass-through
\* language, then labels of LangPool in their order in LANGS. LangPool holds
\* one label without a script rule and one with a required script.
LangPool == <<"Fayu", "Eyu">>

SubList(pool, S) ==
  LET F[i \in 0..Len(pool)] ==
        IF i = 0 THEN <<>>
        ELSE IF i \in S THEN Append(F[i - 1], pool[i]) ELSE F[i - 1]
  IN F[Len(pool)]

LangLists ==
  {<<LANGS[1]>> \o SubList(LangPool, S) :
     S \in {T \in SUBSET (1..Len(LangPool)) : Cardinality(T) + 1 <= MaxLangs}}

SrcValues == {NaN, Str(EMPTY), Str(<<SPACE>>), Str(<<LATIN>>), Num(7)}

SrcColumns == UNION {[1..n -> SrcValues] : n \in 0..MaxRows}

ColLists == { <<ORIGINAL>>, <<"ID", "Fayu", ORIGINAL, "Note">>, <<"ID", "Note">> }

\* The texts of at most n characters over a set of characters.
TextsUpTo(chars, n) == UNION {[1..k -> chars] : k \in 0..n}

\* The replies the endpoint is drawn from, and their usage counters.
ReplyTexts == { <<SPACE, LATIN>>, <<HAN>>, <<CYR>> }

Usages == {<<NoCount, NoCount>>} \cup {<<t + 1, t>> : t \in 1..MaxTok}

Responses ==
  {ExcResponse, Reply(None, NoCount, NoCount)}
    \cup {Reply(Str(t), u[1], u[2]) : t \in ReplyTexts, u \in Usages}

\* ------------------------------------------------------------------- table
\* pd.read_excel(input_file)
InputCell(f, r, c) ==
  IF c = ORIGINAL THEN f.orig[r + 1]
  ELSE IF c \in LangLabels THEN NaN
  ELSE Num(r)

read_excel(f) ==
  [n |-> Len(f.orig), cols |-> f.cols,
   cells |-> [k \in (0..(Len(f.orig) - 1)) \X Range(f.cols) |-> InputCell(f, k[1], k[2])]]

\* df[lang] = ""
NewColumn(d, lang) ==
  [d EXCEPT !.cols = Append(d.cols, lang),
            !.cells = [k \in (DOMAIN d.cells) \cup (Rows(d) \X {lang}) |->
                         IF k[2] = lang THEN Str(EMPTY) ELSE d.cells[k]]]

\* for lang in LANGS: if lang not in df.columns: df[lang] = ""
RECURSIVE AddLangColumns(_, _)
AddLangColumns(d, ls) ==
  IF ls = <<>> THEN d
  ELSE AddLangColumns(IF Head(ls) \in Range(d.cols) THEN d ELSE NewColumn(d, Head(ls)),
                      Tail(ls))

\* df.at[r_idx, lang] = res
SetAt(d, r_idx, lang, res) == [d EXCEPT !.cells[<<r_idx, lang>>] = res]

\* Faulty variant: the columns are left in the order they have.
ReorderSkipped(d, ls) == d

\* head = ["Original"] + LANGS; tail = the other columns; df = df[head + tail]
Reorder(d, ls) ==
  LET head == <<ORIGINAL>> \o ls
      tail == SelectSeq(d.cols, LAMBDA c : c \notin Range(head))
  IN [d EXCEPT !.cols = head \o tail,
               !.cells = [k \in Rows(d) \X Range(head \o tail) |-> d.cells[k]]]

\* --------------------------------------------------------- output artifact
\* Two decimal digits, zero padded: the %m, %d, %H and %M fields of strftime.
Pad2(n) == <<48 + ((n \div 10) % 10), 48 + (n % 10)>>

\* datetime.datetime.now().strftime('%m%d_%H%M'), between "Translated_" and
\* ".xlsx": month, day, "_", hour, minute.
out_name(t) == Pad2(t.month) \o Pad2(t.day) \o <<95>> \o Pad2(t.hour) \o Pad2(t.minute)

NoWrites == [k \in {} |-> <<>>]

\* df.to_excel(out_name, index=False): the file of that name is created or
\* replaced; the directory keeps, per name, what each write put there.
to_excel(dir, name, d) ==
  LET w == [cols |-> d.cols, cells |-> d.cells]
  IN [k \in (DOMAIN dir) \cup {name} |->
        IF k = name
        THEN (IF name \in DOMAIN dir THEN Append(dir[name], w) ELSE <<w>>)
        ELSE dir[k]]

\* ----------------------------------------------------------------- futures
NoResult == Result(0 - 1, "", None, 0, 0)

\* executor.submit(do_job, idx, lang, source)
Submit(idx, lang, source) ==
  [st |-> "pending", text |-> source, attempt |-> 0, calls |-> 0, rejected |-> TRUE,
   slept |-> <<>>, logs |-> 0, result |-> NoResult]

Running == {k \in DOMAIN futures : futures[k].st = "running"}

\* Faulty variant: one thread more than the pool's width.
PoolHasRoomForOneMore == Cardinality(Running) <= MAX_WORKERS

\* with ThreadPoolExecutor(max_workers=MAX_WORKERS): a thread is free.
PoolHasRoom == Cardinality(Running) < MAX_WORKERS

\* Faulty variant: the future of a failed job is never yielded.
CompletedUnlessFailed(f) == f.st = "done" /\ f.logs = 0

\* as_completed yields a future once its job has returned.
Completed(f) == f.st = "done"

Done(f, res) == [f EXCEPT !.st = "done", !.result = res]

\* Faulty variants: the two counters swapped; the totals overwritten with
\* the last result's counts, as after an update made on a stale read.
AddStatsOverwrites(t, res) == [in |-> res.tin, out |-> res.tout]
AddStatsSwapped(t, res) == [in |-> t.in + res.tout, out |-> t.out + res.tin]

\* stats["in"] += in_t; stats["out"] += out_t
AddStats(t, res) == [in |-> t.in + res.tin, out |-> t.out + res.tout]

\* The place of a job in the submission loop, from 0: rows outermost.
Position(q, x) == CHOOSE i \in 1..Len(q) : q[i] = x
SubmitIndex(k) == k[1] * Len(langs) + Position(langs, k[2]) - 1

\* Faulty variant: the n-th result collected goes to the n-th job submitted.
TargetByArrival(res, k) == <<pbar \div Len(langs), langs[(pbar % Len(langs)) + 1]>>

\* The cell a collected result is written to: df.at[r_idx, lang].
Target(res, k) == <<res.row_idx, res.lang>>

\* ----------------------------------------------------------------- actions
\* if "Original" not in df.columns
HasOriginal(d) == ORIGINAL \in Range(d.cols)

\* Faulty variant: the language columns are created before the check.
OnMissingColumnAfterAdding(d) == AddLangColumns(d, langs)

\* The table main returns with when the column is missing: as it was read.
OnMissingColumn(d) == d

\* main, from its start to the end of the submission loop.
MainStart ==
  /\ pc = "start"
  /\ IF ~file.exists
     THEN /\ pc' = "no_file"
          /\ UNCHANGED <<df, stats, futures>>
     ELSE LET d0 == read_excel(file) IN
          IF ~HasOriginal(d0)
          THEN /\ pc' = "no_column"
               /\ df' = OnMissingColumn(d0)
               /\ UNCHANGED <<stats, futures>>
          ELSE LET d1 == AddLangColumns(d0, langs) IN
               /\ pc' = "collect"
               /\ df' = d1
               /\ stats' = [in |-> 0, out |-> 0]
               /\ futures' = [k \in Rows(d1) \X Range(langs) |->
                                Submit(k[1], k[2], d1.cells[<<k[1], ORIGINAL>>])]
  /\ UNCHANGED <<file, langs, pbar, saved, inorder, now, outdir, call>>

\* A pool thread takes a queued job and runs do_job up to its first API call.
WorkerStart(k) ==
  /\ futures[k].st = "pending"
  /\ PoolHasRoom
  /\ LET f == futures[k] IN
     futures' = [futures EXCEPT ![k] =
       IF IsBlank(f.text) THEN Done(f, BlankResult(k[1], k[2], f.text))
       ELSE IF PassThrough(k[2]) THEN Done(f, PassResult(k[1], k[2], f.text))
       ELSE [f EXCEPT !.st = "running"]]
  /\ UNCHANGED <<file, langs, pc, df, stats, pbar, saved, inorder, now, outdir, call>>

\* One attempt of call_api comes back: accepted, or failed and retried after
\* the backoff wait, or failed for the last time, which do_job logs and turns
\* into the sentinel.
ApiReturn(k, resp) ==
  /\ futures[k].st = "running"
  /\ LET f == futures[k]
         a == f.attempt + 1
         r == call_api_once(PyStr(f.text), k[2], resp)
         g == [f EXCEPT !.attempt = a, !.calls = f.calls + 1,
                        !.rejected = f.rejected /\ r.why = "mismatch"]
     IN futures' = [futures EXCEPT ![k] =
          IF r.ok THEN Done(g, OkResult(k[1], k[2], r))
          ELSE IF StopAfter(a)
               THEN Done([g EXCEPT !.logs = g.logs + 1], ErrorResult(k[1], k[2], f.text))
               ELSE [g EXCEPT !.slept = Append(g.slept, Wait(a))]]
  /\ UNCHANGED <<file, langs, pc, df, stats, pbar, saved, inorder, now, outdir, call>>

\* for f in as_completed(futures): one finished future is consumed.
Collect(k) ==
  /\ pc = "collect"
  /\ Completed(futures[k])
  /\ LET res == futures[k].result
         at == Target(res, k)
     IN /\ df' = SetAt(df, at[1], at[2], res.text)
        /\ stats' = AddStats(stats, res)
  /\ pbar' = pbar + 1
  /\ futures' = [futures EXCEPT ![k].st = "taken"]
  /\ inorder' = (inorder /\ SubmitIndex(k) = pbar)
  /\ UNCHANGED <<file, langs, pc, saved, now, outdir, call>>

\* After the loop: the columns are reordered and the table is written.
Finish ==
  /\ pc = "collect"
  /\ \A k \in DOMAIN futures : futures[k].st = "taken"
  /\ df' = Reorder(df, langs)
  /\ saved' = [writes |-> saved.writes + 1, cols |-> df'.cols, cells |-> df'.cells]
  /\ outdir' = to_excel(outdir, out_name(now), df')
  /\ pc' = "done"
  /\ UNCHANGED <<file, langs, stats, futures, pbar, inorder, now, call>>

\* The moments the clock is read at, in the order they come: two in one
\* minute, one in the next minute, and the first two a year on.
Time(y, mi, s) == [year |-> y, month |-> 11, day |-> 5, hour |-> 10, minute |-> mi, second |-> s]
Clock(i) ==
  LET q == <<Time(2026, 7, 10), Time(2026, 7, 50), Time(2026, 8, 5)>>
      n == Len(q)
  IN [q[((i - 1) % n) + 1] EXCEPT !.year = 2026 + ((i - 1) \div n)]

NoCall == [fn |-> "", args |-> <<>>, ret |-> <<>>]

NoFile == [exists |-> FALSE, cols |-> <<>>, orig |-> <<>>]

Files == {NoFile} \cup {[exists |-> TRUE, cols |-> c, orig |-> o] : c \in ColLists, o \in SrcColumns}

Init ==
  /\ file \in Files
  /\ langs \in LangLists
  /\ Len(file.orig) * Len(langs) <= MaxJobs
  /\ pc = "start"
  /\ df = [n |-> 0, cols |-> <<>>, cells |-> NoCells]
  /\ stats = [in |-> 0, out |-> 0]
  /\ futures = [k \in {} |-> Submit(0, "", NaN)]
  /\ pbar = 0
  /\ saved = [writes |-> 0, cols |-> <<>>, cells |-> NoCells]
  /\ inorder = TRUE
  /\ now = Clock(1)
  /\ outdir = NoWrites
  /\ call = NoCall

Next ==
  \/ MainStart
  \/ \E k \in DOMAIN futures : WorkerStart(k)
  \/ \E k \in DOMAIN futures : \E resp \in Responses : ApiReturn(k, resp)
  \/ \E k \in DOMAIN futures : Collect(k)
  \/ Finish

Spec == Init /\ [][Next]_vars

\* Every thread keeps running and every API call returns or fails within its
\* timeout: a step that can be taken is eventually taken.
Fair == WF_vars(Next)

\* The runs the progress property is checked on: the input without extra
\* columns, each row's source missing or a text.
FairInit ==
  /\ Init
  /\ file.cols \in {<<>>, <<ORIGINAL>>, <<"ID", "Note">>}
  /\ \A i \in 1..Len(file.orig) : file.orig[i] \in {NaN, Str(<<LATIN>>)}

FairSpec == FairInit /\ [][Next]_vars /\ Fair

\* ------------------------------------------- runs over every kind of language
\* One source row and the pass-through language followed by one language of
\* each kind the validator tells apart: no script rule, Cyrillic required
\* (twice), Japanese, Arabic required. The endpoint replies with any text of
\* up to MaxLen characters, or with the five letters of the sentinel.
WidePool == <<"Fayu", "Eyu", "Riyu", "Wukelanyu", "Alaboyu">>

WideReplyTexts == TextsUpTo({SPACE, LATIN, HAN, CYR, ARABIC}, MaxLen) \cup {ERROR}

WideResponses ==
  {ExcResponse, Reply(None, NoCount, NoCount)}
    \cup {Reply(Str(t), 2, 1) : t \in WideReplyTexts}

WideInit ==
  /\ file \in {[exists |-> TRUE, cols |-> <<ORIGINAL>>, orig |-> <<v>>] :
                 v \in {NaN, Str(<<LATIN>>), Str(ERROR)}}
  /\ langs \in {<<LANGS[1], WidePool[i]>> : i \in 1..Len(WidePool)}
  /\ pc = "start"
  /\ df = [n |-> 0, cols |-> <<>>, cells |-> NoCells]
  /\ stats = [in |-> 0, out |-> 0]
  /\ futures = [k \in {} |-> Submit(0, "", NaN)]
  /\ pbar = 0
  /\ saved = [writes |-> 0, cols |-> <<>>, cells |-> NoCells]
  /\ inorder = TRUE
  /\ now = Clock(1)
  /\ outdir = NoWrites
  /\ call = NoCall

WideNext ==
  \/ MainStart
  \/ \E k \in DOMAIN futures : WorkerStart(k)
  \/ \E k \in DOMAIN futures : \E resp \in WideResponses : ApiReturn(k, resp)
  \/ \E k \in DOMAIN futures : Collect(k)
  \/ Finish

WideSpec == WideInit /\ [][WideNext]_vars

\* ------------------------------------------------- more jobs than pool threads
\* A table of PoolRows rows of text translated into all of LANGS: 14 API jobs
\* a row. To keep the run within reach, one schedule is followed per kind of
\* step: the pool's queue is first-in first-out, so the job submitted first
\* among those queued starts first; of the running jobs the one submitted
\* first gets its reply first, and the reply is always the same Latin text
\* (accepted for most languages, rejected three times for those that require
\* a script); the main thread collects once the queue is empty, and of the
\* finished jobs the one submitted first is collected first.
JobAt(i) == <<i \div Len(langs), langs[(i % Len(langs)) + 1]>>

Oldest(S) ==
  LET n == Cardinality(DOMAIN futures)
      F[i \in 0..n] == IF i = n \/ JobAt(i) \in S THEN i ELSE F[i + 1]
  IN JobAt(F[0])

Queued == {k \in DOMAIN futures : futures[k].st = "pending"}
Finished == {k \in DOMAIN futures : futures[k].st = "done"}

PoolResponse == Reply(Str(<<LATIN>>), 2, 1)

PoolInit ==
  /\ file = [exists |-> TRUE, cols |-> <<ORIGINAL>>,
              orig |-> [i \in 1..PoolRows |-> Str(<<LATIN>>)]]
  /\ langs = LANGS
  /\ pc = "start"
  /\ df = [n |-> 0, cols |-> <<>>, cells |-> NoCells]
  /\ stats = [in |-> 0, out |-> 0]
  /\ futures = [k \in {} |-> Submit(0, "", NaN)]
  /\ pbar = 0
  /\ saved = [writes |-> 0, cols |-> <<>>, cells |-> NoCells]
  /\ inorder = TRUE
  /\ now = Clock(1)
  /\ outdir = NoWrites
  /\ call = NoCall

PoolNext ==
  \/ MainStart
  \/ Queued # {} /\ WorkerStart(Oldest(Queued))
  \/ Running # {} /\ ApiReturn(Oldest(Running), PoolResponse)
  \/ Queued = {} /\ Finished # {} /\ Collect(Oldest(Finished))
  \/ Finish

PoolSpec == PoolInit /\ [][PoolNext]_vars

\* ------------------------------------------------------- one run after another
\* Time passes: the clock moves on to a later moment.
Tick ==
  /\ \E i \in 1..MaxTicks : \E j \in 1..MaxTicks :
       i < j /\ now = Clock(i) /\ now' = Clock(j)
  /\ UNCHANGED <<file, langs, pc, df, stats, futures, pbar, saved, inorder, outdir, call>>

\* The number of times main has written an artifact.
RECURSIVE Writes(_)
Writes(dir) ==
  IF DOMAIN dir = {} THEN 0
  ELSE LET name == CHOOSE x \in DOMAIN dir : TRUE
       IN Len(dir[name]) + Writes([k \in (DOMAIN dir) \ {name} |-> dir[k]])

\* The program is started again on the same input, in the same directory.
Rerun ==
  /\ pc = "done"
  /\ Writes(outdir) < MaxRuns
  /\ pc' = "start"
  /\ df' = [n |-> 0, cols |-> <<>>, cells |-> NoCells]
  /\ stats' = [in |-> 0, out |-> 0]
  /\ futures' = [k \in {} |-> Submit(0, "", NaN)]
  /\ pbar' = 0
  /\ saved' = [writes |-> 0, cols |-> <<>>, cells |-> NoCells]
  /\ inorder' = TRUE
  /\ UNCHANGED <<file, langs, now, outdir, call>>

RerunInit ==
  /\ file = [exists |-> TRUE, cols |-> <<ORIGINAL>>, orig |-> <<Str(<<LATIN>>)>>]
  /\ langs = <<LANGS[1], LangPool[1]>>
  /\ pc = "start"
  /\ df = [n |-> 0, cols |-> <<>>, cells |-> NoCells]
  /\ stats = [in |-> 0, out |-> 0]
  /\ futures = [k \in {} |-> Submit(0, "", NaN)]
  /\ pbar = 0
  /\ saved = [writes |-> 0, cols |-> <<>>, cells |-> NoCells]
  /\ inorder = TRUE
  /\ now = Clock(1)
  /\ outdir = NoWrites
  /\ call = NoCall

RerunNext ==
  \/ MainStart
  \/ \E k \in DOMAIN futures : WorkerStart(k)
  \/ \E k \in DOMAIN futures : \E resp \in Responses : ApiReturn(k, resp)
  \/ \E k \in DOMAIN futures : Collect(k)
  \/ Finish
  \/ Tick
  \/ Rerun

RerunSpec == RerunInit /\ [][RerunNext]_vars

\* ------------------------------------------------- single calls, on their own
\* The characters of a candidate: one of each class, and the first and last
\* code point of each range the validator searches for with the code points
\* just outside.
RangeEdges ==
  {19967, 19968, 40959, 40960, 1023, 1024, 1279, 1280, 1535, 1536, 1791, 1792}
CandidateChars == {SPACE, LATIN, HAN, CYR, ARABIC} \cup RangeEdges

\* A label that is in neither LANGS nor LANG_EN.
UNCONFIGURED == "Kelinggongyu"

CallInputs ==
  {[fn |-> "_lang_ok", args |-> <<l, t>>, ret |-> <<>>] :
     l \in LangLabels, t \in TextsUpTo(CandidateChars, MaxLen)}
  \cup {[fn |-> "call_api", args |-> <<t, l>>, ret |-> <<>>] :
          l \in LangLabels \cup {UNCONFIGURED}, t \in {<<LATIN>>, <<HAN>>}}

\* _lang_ok(lang_cn, out) is called and returns.
LangOkCall ==
  /\ call.fn = "_lang_ok" /\ call.ret = <<>>
  /\ call' = [call EXCEPT !.ret = <<_lang_ok(call.args[1], call.args[2])>>]
  /\ UNCHANGED <<file, langs, pc, df, stats, futures, pbar, saved, inorder, now, outdir>>

\* call_api(text, lang_cn) runs up to client.chat.completions.create: the
\* lookup raises nothing and the request is sent.
ApiRequestCall ==
  /\ call.fn = "call_api" /\ call.ret = <<>>
  /\ call' = [call EXCEPT !.ret = <<[raised |-> "", sent |-> TRUE,
                                      request |-> Request(call.args[1], call.args[2])]>>]
  /\ UNCHANGED <<file, langs, pc, df, stats, futures, pbar, saved, inorder, now, outdir>>

CallInit ==
  /\ call \in CallInputs
  /\ file = NoFile
  /\ langs = LANGS
  /\ pc = "idle"
  /\ df = [n |-> 0, cols |-> <<>>, cells |-> NoCells]
  /\ stats = [in |-> 0, out |-> 0]
  /\ futures = [k \in {} |-> Submit(0, "", NaN)]
  /\ pbar = 0
  /\ saved = [writes |-> 0, cols |-> <<>>, cells |-> NoCells]
  /\ inorder = TRUE
  /\ now = Clock(1)
  /\ outdir = NoWrites

CallNext == LangOkCall \/ ApiRequestCall

CallSpec == CallInit /\ [][CallNext]_vars

\* ------------------------------------------------------------------ claims
Jobs == (0..(Len(file.orig) - 1)) \X Range(langs)
Returned(k) == k \in DOMAIN futures /\ futures[k].st \in {"done", "taken"}

\* C1: when the output artifact is written, every (row, language) pair has a
\* job whose one result, carrying that pair, was collected, the number of
\* results collected is the number of pairs, and the artifact's cell of the
\* pair holds a text, never a missing value.
NoJobDropped ==
  saved.writes > 0 =>
    /\ DOMAIN futures = Jobs
    /\ pbar = Cardinality(Jobs)
    /\ \A k \in Jobs :
         /\ futures[k].st = "taken"
         /\ futures[k].result.row_idx = k[1]
         /\ futures[k].result.lang = k[2]
         /\ k \in DOMAIN saved.cells
         /\ saved.cells[k].kind = "str"

\* C1 witness: an artifact written for a table that already had a language
\* column of missing cells, with a failed job and a translated job.
NoJobDroppedWitness ==
  /\ saved.writes = 1
  /\ "Fayu" \in Range(file.cols) /\ "Fayu" \in Range(langs)
  /\ \E k \in Jobs : futures[k].logs = 1 /\ saved.cells[k] = Str(ERROR)
  /\ \E k \in Jobs : futures[k].calls > 0 /\ futures[k].logs = 0

\* C2: a job every attempt of which the validator rejected has made exactly
\* 3 attempts and 3 API calls, its result is the sentinel "ERROR" with zero
\* tokens, and exactly one error-log line was written for it.
RejectedThriceIsError ==
  \A k \in DOMAIN futures :
    (Returned(k) /\ futures[k].calls > 0 /\ futures[k].rejected) =>
      /\ futures[k].attempt = 3
      /\ futures[k].calls = 3
      /\ futures[k].result = Result(k[1], k[2], Str(ERROR), 0, 0)
      /\ futures[k].logs = 1

\* C2 witness: a returned job whose three replies the validator rejected.
RejectedThriceWitness ==
  \E k \in DOMAIN futures :
    /\ Returned(k) /\ futures[k].rejected /\ futures[k].calls = 3
    /\ ~IsBlank(futures[k].text) /\ ~PassThrough(k[2])

\* C3: in every step, each job has made as many API calls as attempts and at
\* most 3; a step adds at most one call, and only to a job that is running;
\* a job that has returned (accepted, or failed for the third time) makes no
\* further call, and a job with 3 calls has returned.
RetryBudget ==
  [][ /\ \A k \in DOMAIN futures' :
           /\ futures'[k].calls = futures'[k].attempt
           /\ futures'[k].calls <= 3
           /\ futures'[k].calls = 3 => futures'[k].st \in {"done", "taken"}
           /\ futures'[k].st = "running" => futures'[k].logs = 0
      /\ \A k \in DOMAIN futures :
           /\ k \in DOMAIN futures'
           /\ futures'[k].calls >= futures[k].calls
           /\ futures'[k].calls <= futures[k].calls + 1
           /\ futures'[k].calls > futures[k].calls => futures[k].st = "running"
           /\ futures[k].st \in {"done", "taken"} =>
                /\ futures'[k].calls = futures[k].calls
                /\ futures'[k].result = futures[k].result ]_vars

\* C3 witness: one job accepted at its second call and one failed after three.
RetryBudgetWitness ==
  /\ \E k \in DOMAIN futures :
       futures[k].st = "taken" /\ futures[k].calls = 2 /\ futures[k].logs = 0
  /\ \E k \in DOMAIN futures :
       futures[k].st = "taken" /\ futures[k].calls = 3 /\ futures[k].logs = 1

\* A source value that is a text of at least one character, or a number.
NonEmptySource(text) == ~IsNa(text) /\ PyStr(text) # <<>>

\* A source value that is a number, or a text with a character that is not
\* whitespace.
NonBlankSource(text) ==
  \/ text.kind = "int"
  \/ text.kind = "str" /\ \E i \in 1..Len(text.s) : ~IsSpace(text.s[i])

\* C4 as stated: the pass-through job of every row with a non-empty source
\* returns a value identical to the source value, without an API call, an
\* error or tokens.
PassThroughIdentical ==
  \A k \in DOMAIN futures :
    (Returned(k) /\ k[2] = "Yingyu" /\ NonEmptySource(futures[k].text)) =>
      /\ futures[k].result.text = futures[k].text
      /\ futures[k].calls = 0 /\ futures[k].logs = 0
      /\ futures[k].result.tin = 0 /\ futures[k].result.tout = 0

\* C4 amended: for every row whose source is not blank (not missing, not
\* empty, not only whitespace), the pass-through job returns the string form
\* of the source value, which is the value itself when it is a text; it makes
\* no attempt and no API call, writes no error-log line, reports zero tokens,
\* and the artifact's cell holds that string.
PassThroughCopies ==
  \A k \in DOMAIN futures :
    (Returned(k) /\ k[2] = "Yingyu" /\ NonBlankSource(futures[k].text)) =>
      /\ futures[k].result.text = Str(PyStr(futures[k].text))
      /\ futures[k].text.kind = "str" => futures[k].result.text = futures[k].text
      /\ futures[k].attempt = 0 /\ futures[k].calls = 0 /\ futures[k].logs = 0
      /\ futures[k].result.tin = 0 /\ futures[k].result.tout = 0
      /\ saved.writes > 0 => saved.cells[k] = Str(PyStr(file.orig[k[1] + 1]))

\* C4 witness: an artifact with the pass-through cell of a text row and of a
\* numeric row.
PassThroughWitness ==
  /\ saved.writes = 1
  /\ \E k \in Jobs : k[2] = "Yingyu" /\ file.orig[k[1] + 1] = Str(<<LATIN>>)
                     /\ saved.cells[k] = Str(<<LATIN>>)
  /\ \E k \in Jobs : k[2] = "Yingyu" /\ file.orig[k[1] + 1] = Num(7)
                     /\ saved.cells[k] = Str(<<55>>)

\* C5: a job whose source is missing, empty or only whitespace returns the
\* empty string with zero tokens, whatever its language, without an attempt,
\* an API call or a log line, and the artifact's cell is the empty string.
BlankRowsStayEmpty ==
  \A k \in DOMAIN futures :
    LET src == file.orig[k[1] + 1] IN
    (Returned(k) /\ (src.kind = "nan" \/ (src.kind = "str" /\ \A i \in 1..Len(src.s) : IsSpace(src.s[i])))) =>
      /\ futures[k].result = Result(k[1], k[2], Str(EMPTY), 0, 0)
      /\ futures[k].attempt = 0 /\ futures[k].calls = 0 /\ futures[k].logs = 0
      /\ saved.writes > 0 => saved.cells[k] = Str(EMPTY)

\* C5 witness: an artifact of a table with a missing and a whitespace-only
\* source, whose pass-through and translated cells are all empty.
BlankRowsWitness ==
  /\ saved.writes = 1
  /\ file.orig = <<NaN, Str(<<SPACE>>)>>
  /\ Len(langs) = 2
  /\ \A k \in Jobs : saved.cells[k] = Str(EMPTY)

\* The tokens of the results of a set of jobs.
RECURSIVE SumIn(_)
SumIn(S) ==
  IF S = {} THEN 0
  ELSE LET k == CHOOSE j \in S : TRUE IN futures[k].result.tin + SumIn(S \ {k})

RECURSIVE SumOut(_)
SumOut(S) ==
  IF S = {} THEN 0
  ELSE LET k == CHOOSE j \in S : TRUE IN futures[k].result.tout + SumOut(S \ {k})

TakenJobs == {k \in DOMAIN futures : futures[k].st = "taken"}
Succeeded == {k \in DOMAIN futures : Returned(k) /\ futures[k].calls > 0 /\ futures[k].logs = 0}

TotalsMatch ==
  /\ stats = [in |-> SumIn(TakenJobs), out |-> SumOut(TakenJobs)]
  /\ \A k \in DOMAIN futures :
       (Returned(k) /\ k \notin Succeeded) =>
         futures[k].result.tin = 0 /\ futures[k].result.tout = 0
  /\ saved.writes > 0 => stats = [in |-> SumIn(Succeeded), out |-> SumOut(Succeeded)]

\* C6: at the start and after every step, the Usage Totals are the sums of
\* the input and output tokens of the results collected so far; the result
\* of a failed, blank or pass-through job carries zero tokens; once the
\* artifact is written the totals are the sums over the jobs an API call of
\* which was accepted; and no step decreases a total.
TokenAccounting ==
  /\ TotalsMatch
  /\ [][TotalsMatch' /\ stats'.in >= stats.in /\ stats'.out >= stats.out]_vars

\* C6 witness: a finished run with one accepted job that reported tokens and
\* one failed job.
TokenAccountingWitness ==
  /\ saved.writes = 1
  /\ stats = [in |-> 2, out |-> 1]
  /\ \E k \in Jobs : futures[k].logs = 1
  /\ \E k \in Jobs : futures[k].result.tin = 2 /\ futures[k].result.tout = 1

\* C7: whatever the order in which the results were collected, the cell of
\* every job in the artifact is the text of that job's own result, every
\* other cell is as it was read, and the Usage Totals are the sums over all
\* jobs: table and totals are a function of the jobs' results alone.
OrderIndependent ==
  saved.writes > 0 =>
    /\ \A k \in DOMAIN saved.cells :
         saved.cells[k] = IF k \in Jobs THEN futures[k].result.text
                          ELSE InputCell(file, k[1], k[2])
    /\ Jobs \subseteq DOMAIN saved.cells
    /\ stats = [in |-> SumIn(Jobs), out |-> SumOut(Jobs)]

\* C7 witness: a finished run whose results were not collected in the order
\* of submission and differ from job to job.
OrderIndependentWitness ==
  /\ saved.writes = 1
  /\ ~inorder
  /\ \E j, k \in Jobs :
       /\ futures[j].result.text # futures[k].result.text
       /\ futures[j].result.tin > 0 /\ futures[k].result.tin = 0
       /\ futures[k].calls > 0

\* C8: the artifact's columns are "Original", then the configured languages
\* in configured order, then the other columns of the input in their input
\* order, each column of the input and each language exactly once.
ColumnOrder ==
  saved.writes > 0 =>
    LET c == saved.cols
        nhead == 1 + Len(langs)
        InputPlace(x) == CHOOSE i \in 1..Len(file.cols) : file.cols[i] = x
    IN /\ c[1] = ORIGINAL
       /\ \A i \in 1..Len(langs) : c[1 + i] = langs[i]
       /\ Range(c) = Range(file.cols) \cup Range(langs)
       /\ Cardinality(Range(c)) = Len(c)
       /\ \A i, j \in (nhead + 1)..Len(c) :
            i < j => InputPlace(c[i]) < InputPlace(c[j])
       /\ DOMAIN saved.cells = (0..(Len(file.orig) - 1)) \X Range(c)

\* C8 witness: an artifact of a table whose input had a column before
\* "Original", a language column already, and a column after, written after
\* results collected out of submission order.
ColumnOrderWitness ==
  /\ saved.writes = 1
  /\ ~inorder
  /\ file.cols = <<"ID", "Fayu", ORIGINAL, "Note">>
  /\ saved.cols = <<ORIGINAL, "Yingyu", "Fayu", "ID", "Note">>

\* The two configuration errors: no input file, no "Original" column.
ConfigError == ~file.exists \/ ORIGINAL \notin Range(file.cols)

AllCollected == \A k \in Jobs : k \in DOMAIN futures /\ futures[k].st = "taken"

\* C9: under fair scheduling, a run whose input is well-formed ends with every
\* job's result collected and the artifact written, whatever API calls fail;
\* the artifact is written only once all results are collected, and at most
\* once.
RunCompletes ==
  /\ (~ConfigError) ~> (pc = "done" /\ AllCollected /\ saved.writes = 1)
  /\ [][ /\ saved'.writes <= 1
         /\ saved'.writes # saved.writes => AllCollected ]_vars

\* C9 witness: a run has ended with the artifact written although every job
\* that called the API failed, one of them on client errors alone.
RunCompletesWitness ==
  /\ pc = "done" /\ saved.writes = 1
  /\ Cardinality({k \in Jobs : futures[k].logs = 1}) = 2
  /\ \E k \in Jobs : futures[k].logs = 1 /\ ~futures[k].rejected

\* C10: when the input file is missing or the table has no "Original"
\* column, main stops at once: no job exists (so no API call is made), no
\* result is collected, no column is added to the table, no artifact is
\* written; and a run with neither error does not stop there.
ConfigErrorAborts ==
  /\ ConfigError =>
       /\ pc \in {"start", "no_file", "no_column"}
       /\ ~file.exists => pc \in {"start", "no_file"} /\ df.cols = <<>>
       /\ DOMAIN futures = {}
       /\ pbar = 0 /\ stats = [in |-> 0, out |-> 0]
       /\ Range(df.cols) \subseteq Range(file.cols)
       /\ saved.writes = 0
  /\ ~ConfigError => pc \in {"start", "collect", "done"}

\* C10 witness: main has stopped on a table without the column.
ConfigErrorWitness == pc = "no_column" /\ file.cols = <<"ID", "Note">> /\ Len(file.orig) = 2

\* The validator was called on a candidate and has returned.
Validated == call.fn = "_lang_ok" /\ call.ret # <<>>
NonBlankText(t) == \E i \in 1..Len(t) : ~IsSpace(t[i])
HanIn(t) == \E i \in 1..Len(t) : t[i] \in 19968..40959
ArabicIn(t) == \E i \in 1..Len(t) : t[i] \in 1536..1791
CyrillicIn(t) == \E i \in 1..Len(t) : t[i] \in 1024..1279

\* C11: for every language but Japanese the validator rejects every non-blank
\* candidate holding a character of U+4E00..U+9FFF, whatever else it holds;
\* for French a candidate of Latin letters and spaces only is accepted.
HanRule ==
  Validated =>
    LET lang == call.args[1]
        out == call.args[2]
    IN /\ (lang # "Riyu" /\ NonBlankText(out) /\ HanIn(out)) => call.ret = <<FALSE>>
       /\ (lang = "Fayu" /\ \A i \in 1..Len(out) : out[i] \in {SPACE, LATIN})
            => call.ret = <<TRUE>>

\* C11 witness: a Russian candidate holding a Cyrillic and a Han character
\* was rejected.
HanRuleWitness ==
  /\ Validated /\ call.ret = <<FALSE>>
  /\ call.args = <<"Eyu", <<CYR, HAN>>>>

\* C13: the validator rejects a candidate only when it is non-blank and either
\* the language is not Japanese and the candidate holds a Han character, or
\* the language is Arabic and it holds no Arabic character, or the language is
\* Russian or Ukrainian and it holds no Cyrillic character; so every blank
\* candidate, every Japanese candidate and, for the other languages without a
\* required script, every candidate without a Han character is accepted.
OnlyTwoRules ==
  Validated =>
    LET lang == call.args[1]
        out == call.args[2]
        han == lang # "Riyu" /\ HanIn(out)
        script == \/ lang = "Alaboyu" /\ ~ArabicIn(out)
                  \/ lang \in {"Eyu", "Wukelanyu"} /\ ~CyrillicIn(out)
    IN /\ call.ret = <<FALSE>> => (NonBlankText(out) /\ (han \/ script))
       /\ ~NonBlankText(out) => call.ret = <<TRUE>>
       /\ lang = "Riyu" => call.ret = <<TRUE>>
       /\ (lang \notin {"Alaboyu", "Eyu", "Wukelanyu"} /\ ~han) => call.ret = <<TRUE>>

\* C13 witness: a French candidate of Cyrillic letters only was accepted.
OnlyTwoRulesWitness ==
  /\ Validated /\ call.ret = <<TRUE>>
  /\ call.args = <<"Fayu", <<CYR, CYR>>>>

\* The step is one attempt of job k coming back with a non-blank text.
TextReturned(k, resp) ==
  /\ resp.kind = "reply" /\ resp.content.kind = "str"
  /\ NonBlankText(resp.content.s)
  /\ ApiReturn(k, resp)

\* The candidate lacks the script its language requires; it holds it.
LacksScript(lang, out) ==
  \/ lang = "Alaboyu" /\ ~ArabicIn(out)
  \/ lang \in {"Eyu", "Wukelanyu"} /\ ~CyrillicIn(out)
HoldsScript(lang, out) ==
  \/ lang = "Alaboyu" /\ ArabicIn(out)
  \/ lang \in {"Eyu", "Wukelanyu"} /\ CyrillicIn(out)

\* The attempt of job k failed and the job goes on to another attempt.
Retried(k) ==
  /\ futures'[k].st = "running"
  /\ futures'[k].attempt = futures[k].attempt + 1

\* C12 as stated: every candidate that lacks the required script is rejected
\* and the job is retried, whichever attempt it was; a candidate without Han
\* that holds the required script is accepted.
ScriptRuleAlwaysRetries ==
  [][\A k \in DOMAIN futures :
       (k[2] \in {"Alaboyu", "Eyu", "Wukelanyu"} /\ futures'[k] # futures[k]) =>
         \A resp \in WideResponses :
           TextReturned(k, resp) =>
             LET out == resp.content.s IN
             /\ LacksScript(k[2], out) => Retried(k)
             /\ (HoldsScript(k[2], out) /\ ~HanIn(out)) =>
                  /\ futures'[k].st = "done"
                  /\ futures'[k].result.text = Str(Strip(out))]_vars

\* C12, amended: a non-blank Arabic candidate without a character of
\* U+0600..U+06FF and a non-blank Russian or Ukrainian candidate without a
\* character of U+0400..U+04FF is rejected: the attempt fails, the job is
\* retried when it was its first or second attempt and ends with the
\* sentinel when it was its third; a candidate without Han that holds the
\* required script is accepted and becomes the job's result.
ScriptRule ==
  [][\A k \in DOMAIN futures :
       (k[2] \in {"Alaboyu", "Eyu", "Wukelanyu"} /\ futures'[k] # futures[k]) =>
         \A resp \in WideResponses :
           TextReturned(k, resp) =>
             LET out == resp.content.s IN
             /\ LacksScript(k[2], out) =>
                  IF futures[k].attempt < 2 THEN Retried(k)
                  ELSE /\ futures'[k].st = "done"
                       /\ futures'[k].attempt = 3
                       /\ futures'[k].result.text = Str(ERROR)
             /\ (HoldsScript(k[2], out) /\ ~HanIn(out)) =>
                  /\ futures'[k].st = "done"
                  /\ futures'[k].result.text = Str(Strip(out))]_vars

\* C12 witness: an Arabic job whose first two candidates were rejected is at
\* its third attempt, having waited twice.
ScriptRuleWitness ==
  \E k \in DOMAIN futures :
    /\ k[2] = "Alaboyu"
    /\ futures[k].st = "running" /\ futures[k].attempt = 2
    /\ futures[k].rejected /\ Len(futures[k].slept) = 2

\* call_api was called with a label and has got as far as its request.
Requested == call.fn = "call_api" /\ call.ret # <<>>

\* C14 as stated: a call for a label without an entry in the registry fails
\* with an UnknownLanguage error and sends no request.
UnknownLabelFails ==
  (Requested /\ call.args[2] \notin DOMAIN LANG_EN) =>
    /\ call.ret[1].raised = "UnknownLanguage"
    /\ ~call.ret[1].sent

\* C14, amended: the lookup never fails. For a label without an entry the
\* request is sent with the label itself as the language name; for a label
\* with an entry it is sent with the entry's name. Every label of LANGS has an
\* entry, so the jobs of a run, whose labels come from LANGS, never ask for
\* a label without one.
UnknownLabelFallsBack ==
  /\ \A i \in 1..Len(LANGS) : LANGS[i] \in DOMAIN LANG_EN
  /\ Requested =>
       LET text == call.args[1]
           lang_cn == call.args[2]
           r == call.ret[1]
       IN /\ r.raised = "" /\ r.sent
          /\ r.request.user = text
          /\ r.request.lang_en =
               (IF lang_cn \in DOMAIN LANG_EN THEN LANG_EN[lang_cn] ELSE lang_cn)

\* C14 witness: a request was sent whose language name is the label that
\* has no entry.
UnknownLabelWitness ==
  /\ Requested /\ call.args[2] = UNCONFIGURED
  /\ call.ret[1].sent /\ call.ret[1].request.lang_en = UNCONFIGURED

\* C15 as stated: no run writes an artifact under a name an earlier run wrote
\* under, so no artifact is ever replaced.
NeverOverwrites == \A name \in DOMAIN outdir : Len(outdir[name]) <= 1

\* C16: a step of a worker thread (a job starts, an attempt comes back)
\* leaves the table, the totals and the progress counter alone; while results
\* are collected, every step that changes one of them is the collecting
\* thread consuming exactly one finished job: it assigns that job's result to
\* that job's own cell and to no other, adds that result's token counts to
\* the totals, and marks the job as taken; a job once taken is never taken
\* again, so each cell is assigned once and no increment is lost.
RaceFree ==
  [][/\ \A k \in DOMAIN futures :
          (futures[k].st \in {"pending", "running"} /\ futures'[k] # futures[k]) =>
            (df' = df /\ stats' = stats /\ pbar' = pbar)
     /\ \A k \in DOMAIN futures : futures[k].st = "taken" => futures'[k] = futures[k]
     /\ (pc = "collect" /\ pc' = "collect"
           /\ (df' # df \/ stats' # stats \/ pbar' # pbar
                 \/ \E k \in DOMAIN futures :
                      futures[k].st # "taken" /\ futures'[k].st = "taken")) =>
          \E k \in DOMAIN futures :
            /\ futures[k].st = "done"
            /\ futures' = [futures EXCEPT ![k].st = "taken"]
            /\ df' = [df EXCEPT !.cells[k] = futures[k].result.text]
            /\ stats'.in = stats.in + futures[k].result.tin
            /\ stats'.out = stats.out + futures[k].result.tout
            /\ pbar' = pbar + 1]_vars

\* C16 witness: one translated result with tokens has been collected while
\* another job is between two attempts and a third has finished and waits
\* to be collected.
RaceFreeWitness ==
  /\ pc = "collect"
  /\ \E k \in DOMAIN futures :
       futures[k].st = "taken" /\ futures[k].result.tin > 0 /\ stats.in > 0
  /\ \E k \in DOMAIN futures : futures[k].st = "running" /\ futures[k].attempt = 1
  /\ \E k \in DOMAIN futures : futures[k].st = "done"

\* C17: in every reachable state at most MAX_WORKERS (45) jobs are being
\* executed by workers (started and not yet returned, waiting between two
\* attempts included), however many jobs were submitted.
BoundedParallelism ==
  Cardinality({k \in DOMAIN futures : futures[k].st = "running"}) <= 45

\* C17 witness: 45 jobs are being executed, one of them between two
\* attempts, and a job that needs the API is still queued.
BoundedParallelismWitness ==
  /\ Cardinality({k \in DOMAIN futures : futures[k].st = "running"}) = 45
  /\ Cardinality(DOMAIN futures) > 45
  /\ \E k \in DOMAIN futures : futures[k].st = "running" /\ futures[k].attempt > 0
  /\ \E k \in DOMAIN futures : futures[k].st = "pending" /\ k[2] # "Yingyu"

\* The job has returned after three failed attempts.
FailedThrice(k) == Returned(k) /\ futures[k].attempt = 3 /\ futures[k].logs = 1

\* The waits of job k so far are the first waits of the schedule q, each
\* between 2 and 10, one after each failed attempt that was retried and none
\* after the last attempt.
WaitsFollow(k, q) ==
  LET f == futures[k] IN
  /\ \A i \in 1..Len(f.slept) : f.slept[i] = q[i] /\ f.slept[i] >= 2 /\ f.slept[i] <= 10
  /\ f.st = "running" => Len(f.slept) = f.attempt
  /\ (Returned(k) /\ f.attempt > 0) => Len(f.slept) = f.attempt - 1

\* C18 as stated: the waits follow 2, 4, 8, so a job that fails three times
\* has waited 2 and then 4, and nothing after its last failure.
BackoffTwoFour ==
  \A k \in DOMAIN futures :
    /\ WaitsFollow(k, <<2, 4, 8>>)
    /\ FailedThrice(k) => futures[k].slept = <<2, 4>>

\* C18, amended: the wait after the n-th failed attempt is 2 ** (n - 1)
\* raised to at least 2 and cut to at most 10, which is 2, 2, 4, 8, 10; so a
\* job that fails three times has waited 2 and then 2 again, and nothing
\* after its last failure.
BackoffTwoTwo ==
  /\ \A n \in 1..5 : Wait(n) = <<2, 2, 4, 8, 10>>[n]
  /\ \A k \in DOMAIN futures :
       /\ WaitsFollow(k, <<2, 2, 4, 8, 10>>)
       /\ FailedThrice(k) => futures[k].slept = <<2, 2>>

\* C18 witness: a job has failed three times, having waited twice.
BackoffWitness ==
  \E k \in DOMAIN futures :
    FailedThrice(k) /\ futures[k].calls = 3 /\ Len(futures[k].slept) = 2

\* The cell of job k holds value c, written from the job's result.
WrittenCell(k, c) ==
  /\ k \in DOMAIN futures /\ futures[k].st = "taken"
  /\ \/ saved.writes = 0 /\ c = df.cells[k]
     \/ saved.writes > 0 /\ c = saved.cells[k]

\* C19: every cell of a language column other than the pass-through one that
\* a job's result was written to, in the table and in the artifact, is a
\* text that is empty, or the sentinel "ERROR", or accepted by the validator
\* for the column's language; a non-empty cell of a job that succeeded holds
\* no Han character unless the language is Japanese, an Arabic character when
\* the language is Arabic and a Cyrillic one when it is Russian or Ukrainian.
CellsValid ==
  \A k \in DOMAIN futures :
    \A c \in {df.cells[k]} \cup (IF saved.writes > 0 THEN {saved.cells[k]} ELSE {}) :
      (WrittenCell(k, c) /\ k[2] # "Yingyu") =>
        /\ c.kind = "str"
        /\ c.s = <<>> \/ c.s = ERROR \/ _lang_ok(k[2], c.s)
        /\ (futures[k].calls > 0 /\ futures[k].logs = 0 /\ c.s # <<>>) =>
             /\ k[2] # "Riyu" => ~HanIn(c.s)
             /\ k[2] = "Alaboyu" => ArabicIn(c.s)
             /\ k[2] \in {"Eyu", "Wukelanyu"} => CyrillicIn(c.s)

\* C19 witness: the artifact holds an Arabic translation that was accepted at
\* the job's second attempt.
CellsValidWitness ==
  \E k \in DOMAIN futures :
    /\ k[2] = "Alaboyu" /\ saved.writes = 1
    /\ WrittenCell(k, saved.cells[k])
    /\ futures[k].attempt = 2 /\ futures[k].logs = 0
    /\ saved.cells[k] = Str(<<ARABIC, LATIN>>)

\* Job k used up its three attempts without an accepted reply.
Exhausted(k) == Returned(k) /\ futures[k].attempt = 3 /\ futures[k].logs = 1

\* C20 as stated: a written cell holds "ERROR" exactly when its job used up
\* its attempts.
ErrorIffExhausted ==
  \A k \in DOMAIN futures :
    \A c \in {df.cells[k]} \cup (IF saved.writes > 0 THEN {saved.cells[k]} ELSE {}) :
      WrittenCell(k, c) => (c = Str(ERROR) <=> Exhausted(k))

\* C20, amended: the cell of a job that used up its attempts holds "ERROR";
\* a cell that holds "ERROR" belongs to such a job, or to a pass-through
\* job whose source reads "ERROR", or to a job of a language without a
\* required script whose accepted reply reads "ERROR". For Arabic, Russian and
\* Ukrainian the cell holds "ERROR" exactly when the job used up its attempts.
ErrorMarksExhausted ==
  \A k \in DOMAIN futures :
    \A c \in {df.cells[k]} \cup (IF saved.writes > 0 THEN {saved.cells[k]} ELSE {}) :
      WrittenCell(k, c) =>
        /\ Exhausted(k) => c = Str(ERROR)
        /\ (c = Str(ERROR) /\ ~Exhausted(k)) =>
             \/ k[2] = "Yingyu" /\ futures[k].text = Str(ERROR) /\ futures[k].calls = 0
             \/ /\ k[2] \notin {"Yingyu", "Alaboyu", "Eyu", "Wukelanyu"}
                /\ futures[k].calls > 0 /\ futures[k].logs = 0

\* C20 witness: in the artifact both cells of the row read "ERROR": the
\* French one because its job used up its attempts, the pass-through one
\* because the source text reads so.
ErrorMarksWitness ==
  /\ saved.writes = 1
  /\ Exhausted(<<0, "Fayu">>) /\ saved.cells[<<0, "Fayu">>] = Str(ERROR)
  /\ ~Exhausted(<<0, "Yingyu">>) /\ saved.cells[<<0, "Yingyu">>] = Str(ERROR)

====
